---- MODULE Spec2Model ----
(***************************************************************************)
(* Model of rs-graph's ReverseDigraph adapter                              *)
(* (src/adapters/reversedigraph.rs): a borrowed view of a digraph with    *)
(* every edge direction swapped, its wrapped traversal objects             *)
(* (ReverseWrapIt, ReverseIncidentIt) and its wrapped half-edge            *)
(* (ReverseDirectedEdge), for both trait families (the borrow-scoped       *)
(* traits and the reference-style *Ref traits).                            *)
(*                                                                         *)
(* The wrapped storage graph and its traversal objects are not part of     *)
(* the adapter's source; they are modelled from the capability contract    *)
(* (all definitions named G_...).                                          *)
(***************************************************************************)
EXTENDS Integers, Sequences, FiniteSets

VARIABLES g, its

vars == <<g, its>>

\* ------------------------------------------------------------------ bounds

\* Largest number of nodes of the wrapped graph.
MaxNodes == 2

\* Largest number of edges of the wrapped graph.
MaxEdges == 2

\* Largest number of nested reverse() wrappers around the storage graph.
MaxDepth == 2

\* ------------------------------------------------------------ plain values

None == [some |-> FALSE]

Some(x) == [some |-> TRUE, val |-> x]

\* Node and edge handles are opaque keys, distinct from the dense identifiers.
NodeH(i) == 10 + i

EdgeH(k) == 20 + k

NodesOf(G) == {NodeH(i) : i \in 1..G.n}

EdgesOf(G) == {EdgeH(k) : k \in 1..G.m}

\* --------------------------------------------- the wrapped storage graph

\* All storage graphs with n nodes and m edges: any endpoints (self-loops
\* and parallel edges included), identifiers in handle order or reversed.
GraphsOf(n, m) ==
    {[tag |-> "Graph", n |-> n, m |-> m, src |-> s, snk |-> t, flip |-> f] :
        s \in [{EdgeH(k) : k \in 1..m} -> {NodeH(i) : i \in 1..n}],
        t \in [{EdgeH(k) : k \in 1..m} -> {NodeH(i) : i \in 1..n}],
        f \in BOOLEAN}

Graphs == UNION {GraphsOf(n, m) : n \in 0..MaxNodes, m \in 0..MaxEdges}

G_num_nodes(G) == G.n

G_num_edges(G) == G.m

G_src(G, e) == G.src[e]

G_snk(G, e) == G.snk[e]

G_enodes(G, e) == <<G.src[e], G.snk[e]>>

G_node_id(G, u) == IF G.flip THEN G.n - (u - 10) ELSE (u - 10) - 1

G_id2node(G, id) == IF G.flip THEN NodeH(G.n - id) ELSE NodeH(id + 1)

G_edge_id(G, e) == IF G.flip THEN G.m - (e - 20) ELSE (e - 20) - 1

G_id2edge(G, id) == IF G.flip THEN EdgeH(G.m - id) ELSE EdgeH(id + 1)

\* The storage graph's half-edge: an edge handle and its orientation.
G_DirectedEdge(e, out) == [tag |-> "HalfEdge", e |-> e, out |-> out]

G_nodes_seq(G) == [i \in 1..G.n |-> NodeH(i)]

G_edges_seq(G) == [k \in 1..G.m |-> EdgeH(k)]

G_out_seq(G, u) ==
    LET s == SelectSeq(G_edges_seq(G), LAMBDA e : G.src[e] = u)
    IN  [k \in 1..Len(s) |-> <<s[k], G.snk[s[k]]>>]

G_in_seq(G, u) ==
    LET s == SelectSeq(G_edges_seq(G), LAMBDA e : G.snk[e] = u)
    IN  [k \in 1..Len(s) |-> <<s[k], G.src[s[k]]>>]

\* Incidence records of u in edge order: one per end of an edge at u, so a
\* self-loop contributes an outgoing and an incoming record.
RECURSIVE G_incident_from(_, _, _)
G_incident_from(G, u, k) ==
    IF k > G.m THEN <<>>
    ELSE LET e == EdgeH(k)
             o == IF G.src[e] = u
                  THEN << <<G_DirectedEdge(e, TRUE), G.snk[e]>> >> ELSE <<>>
             i == IF G.snk[e] = u
                  THEN << <<G_DirectedEdge(e, FALSE), G.src[e]>> >> ELSE <<>>
         IN  o \o i \o G_incident_from(G, u, k + 1)

G_incident_seq(G, u) == G_incident_from(G, u, 1)

G_neigh_seq(G, u) ==
    LET s == G_incident_seq(G, u)
    IN  [k \in 1..Len(s) |-> <<s[k][1].e, s[k][2]>>]

\* The sequence a storage traversal object walks.
G_It_seq(G, it) ==
    CASE it.kind = "nodes" -> G_nodes_seq(G)
      [] it.kind = "edges" -> G_edges_seq(G)
      [] it.kind = "out" -> G_out_seq(G, it.u)
      [] it.kind = "in" -> G_in_seq(G, it.u)
      [] it.kind = "incident" -> G_incident_seq(G, it.u)
      [] it.kind = "neigh" -> G_neigh_seq(G, it.u)

\* A storage traversal object holds a cursor only; u is 0 for the
\* whole-graph traversals.
G_It(kind, u) == [tag |-> "It", kind |-> kind, u |-> u, pos |-> 1]

G_nodes_iter(G) == G_It("nodes", 0)

G_edges_iter(G) == G_It("edges", 0)

G_out_iter(G, u) == G_It("out", u)

G_in_iter(G, u) == G_It("in", u)

G_incident_iter(G, u) == G_It("incident", u)

G_neigh_iter(G, u) == G_It("neigh", u)

G_It_next(it, G) ==
    LET s == G_It_seq(G, it)
    IN  IF it.pos <= Len(s)
        THEN [it |-> [it EXCEPT !.pos = @ + 1], res |-> Some(s[it.pos])]
        ELSE [it |-> it, res |-> None]

\* Whole-graph traversals know their exact length; adjacency traversals
\* give the protocol's default hint.
G_It_size_hint(it, G) ==
    LET r == Len(G_It_seq(G, it)) + 1 - it.pos
    IN  IF it.kind \in {"nodes", "edges"} THEN <<r, Some(r)>> ELSE <<0, None>>

G_It_count(it, G) == Len(G_It_seq(G, it)) + 1 - it.pos

G_is_outgoing(de) == de.out

G_is_incoming(de) == ~de.out

G_edge(de) == de.e

\* ------------------------------------------------- the ReverseDigraph view

\* pub struct ReverseDigraph<'a, G>(&'a G): the view borrows the graph it
\* wraps (field g0).
ReverseDigraph(G) == [tag |-> "ReverseDigraph", g0 |-> G]

reverse(G) == ReverseDigraph(G)

\* pub struct ReverseWrapIt<I>(I)
ReverseWrapIt(I) == [tag |-> "ReverseWrapIt", it0 |-> I]

\* pub struct ReverseIncidentIt<I>(I)
ReverseIncidentIt(I) == [tag |-> "ReverseIncidentIt", it0 |-> I]

\* pub struct ReverseDirectedEdge<E>(E)
ReverseDirectedEdge(E) == [tag |-> "ReverseDirectedEdge", e0 |-> E]

RECURSIVE num_nodes(_), num_edges(_), nodes_iter(_), edges_iter(_)
RECURSIVE enodes(_, _), src(_, _), snk(_, _), neigh_iter(_, _)
RECURSIVE node_id(_, _), id2node(_, _), edge_id(_, _), id2edge(_, _)
RECURSIVE out_iter(_, _), in_iter(_, _), incident_iter(_, _)
RECURSIVE next(_, _), size_hint(_, _), count(_, _)
RECURSIVE is_incoming(_), is_outgoing(_), edge(_)

\* impl GraphIterator<ReverseDigraph<G>> for ReverseWrapIt<I>
ReverseWrapIt_next(it, v) ==
    LET r == next(it.it0, v.g0)
    IN  [it |-> ReverseWrapIt(r.it), res |-> r.res]

ReverseWrapIt_size_hint(it, v) == size_hint(it.it0, v.g0)

\* Slip: count answered from the lower bound of the hint.
ReverseWrapIt_count_FromHint(it, v) == size_hint(it.it0, v.g0)[1]

ReverseWrapIt_count(it, v) == count(it.it0, v.g0)

\* impl DirectedEdge for ReverseDirectedEdge<E>
\* Slip: is_incoming forwarded without the swap.
ReverseDirectedEdge_is_incoming_Forwarded(de) == is_incoming(de.e0)

ReverseDirectedEdge_is_incoming(de) == is_outgoing(de.e0)

\* Slip: is_outgoing forwarded without the swap.
ReverseDirectedEdge_is_outgoing_Forwarded(de) == is_outgoing(de.e0)

ReverseDirectedEdge_is_outgoing(de) == is_incoming(de.e0)

ReverseDirectedEdge_edge(de) == edge(de.e0)

\* impl FiniteGraph for ReverseDigraph<G>
ReverseDigraph_num_nodes(v) == num_nodes(v.g0)

ReverseDigraph_num_edges(v) == num_edges(v.g0)

ReverseDigraph_nodes_iter(v) == ReverseWrapIt(nodes_iter(v.g0))

ReverseDigraph_edges_iter(v) == ReverseWrapIt(edges_iter(v.g0))

\* Slip: the endpoint pair swapped like src and snk.
ReverseDigraph_enodes_Swapped(v, e) ==
    LET p == enodes(v.g0, e) IN <<p[2], p[1]>>

ReverseDigraph_enodes(v, e) == enodes(v.g0, e)

\* impl FiniteDigraph for ReverseDigraph<G>
\* Slip: src forwarded without the swap.
ReverseDigraph_src_Forwarded(v, e) == src(v.g0, e)

ReverseDigraph_src(v, e) == snk(v.g0, e)

\* Slip: snk forwarded without the swap.
ReverseDigraph_snk_Forwarded(v, e) == snk(v.g0, e)

ReverseDigraph_snk(v, e) == src(v.g0, e)

\* impl Undirected for ReverseDigraph<G>
\* Slip: the undirected adjacency taken from the outgoing edges only.
ReverseDigraph_neigh_iter_OutOnly(v, u) == ReverseWrapIt(out_iter(v.g0, u))

ReverseDigraph_neigh_iter(v, u) == ReverseWrapIt(neigh_iter(v.g0, u))

\* impl IndexGraph for ReverseDigraph<G>
\* Slip: node identifiers reversed along with the edges.
ReverseDigraph_node_id_Reversed(v, u) ==
    num_nodes(v.g0) - 1 - node_id(v.g0, u)

ReverseDigraph_node_id(v, u) == node_id(v.g0, u)

ReverseDigraph_id2node(v, id) == id2node(v.g0, id)

ReverseDigraph_edge_id(v, e) == edge_id(v.g0, e)

ReverseDigraph_id2edge(v, id) == id2edge(v.g0, id)

\* impl GraphIterator<ReverseDigraph<G>> for ReverseIncidentIt<I>
ReverseIncidentIt_next(it, v) ==
    LET r == next(it.it0, v.g0)
    IN  [it |-> ReverseIncidentIt(r.it),
         res |-> IF r.res.some
                 THEN Some(<<ReverseDirectedEdge(r.res.val[1]), r.res.val[2]>>)
                 ELSE None]

ReverseIncidentIt_size_hint(it, v) == size_hint(it.it0, v.g0)

ReverseIncidentIt_count(it, v) == count(it.it0, v.g0)

\* impl Directed for ReverseDigraph<G>
\* Slip: out_iter forwarded without the swap.
ReverseDigraph_out_iter_Forwarded(v, u) == ReverseWrapIt(out_iter(v.g0, u))

ReverseDigraph_out_iter(v, u) == ReverseWrapIt(in_iter(v.g0, u))

ReverseDigraph_in_iter(v, u) == ReverseWrapIt(out_iter(v.g0, u))

ReverseDigraph_incident_iter(v, u) == ReverseIncidentIt(incident_iter(v.g0, u))

\* Trait dispatch: a method called on a view runs the adapter's impl, one
\* called on the storage graph runs the graph's own.
IsView(v) == v.tag = "ReverseDigraph"

num_nodes(v) == IF IsView(v) THEN ReverseDigraph_num_nodes(v) ELSE G_num_nodes(v)

num_edges(v) == IF IsView(v) THEN ReverseDigraph_num_edges(v) ELSE G_num_edges(v)

nodes_iter(v) == IF IsView(v) THEN ReverseDigraph_nodes_iter(v) ELSE G_nodes_iter(v)

edges_iter(v) == IF IsView(v) THEN ReverseDigraph_edges_iter(v) ELSE G_edges_iter(v)

enodes(v, e) == IF IsView(v) THEN ReverseDigraph_enodes(v, e) ELSE G_enodes(v, e)

src(v, e) == IF IsView(v) THEN ReverseDigraph_src(v, e) ELSE G_src(v, e)

snk(v, e) == IF IsView(v) THEN ReverseDigraph_snk(v, e) ELSE G_snk(v, e)

neigh_iter(v, u) ==
    IF IsView(v) THEN ReverseDigraph_neigh_iter(v, u) ELSE G_neigh_iter(v, u)

node_id(v, u) == IF IsView(v) THEN ReverseDigraph_node_id(v, u) ELSE G_node_id(v, u)

id2node(v, id) ==
    IF IsView(v) THEN ReverseDigraph_id2node(v, id) ELSE G_id2node(v, id)

edge_id(v, e) == IF IsView(v) THEN ReverseDigraph_edge_id(v, e) ELSE G_edge_id(v, e)

id2edge(v, id) ==
    IF IsView(v) THEN ReverseDigraph_id2edge(v, id) ELSE G_id2edge(v, id)

out_iter(v, u) == IF IsView(v) THEN ReverseDigraph_out_iter(v, u) ELSE G_out_iter(v, u)

in_iter(v, u) == IF IsView(v) THEN ReverseDigraph_in_iter(v, u) ELSE G_in_iter(v, u)

incident_iter(v, u) ==
    IF IsView(v) THEN ReverseDigraph_incident_iter(v, u) ELSE G_incident_iter(v, u)

next(it, v) ==
    CASE it.tag = "ReverseWrapIt" -> ReverseWrapIt_next(it, v)
      [] it.tag = "ReverseIncidentIt" -> ReverseIncidentIt_next(it, v)
      [] OTHER -> G_It_next(it, v)

size_hint(it, v) ==
    CASE it.tag = "ReverseWrapIt" -> ReverseWrapIt_size_hint(it, v)
      [] it.tag = "ReverseIncidentIt" -> ReverseIncidentIt_size_hint(it, v)
      [] OTHER -> G_It_size_hint(it, v)

count(it, v) ==
    CASE it.tag = "ReverseWrapIt" -> ReverseWrapIt_count(it, v)
      [] it.tag = "ReverseIncidentIt" -> ReverseIncidentIt_count(it, v)
      [] OTHER -> G_It_count(it, v)

is_incoming(de) ==
    IF de.tag = "ReverseDirectedEdge"
    THEN ReverseDirectedEdge_is_incoming(de) ELSE G_is_incoming(de)

is_outgoing(de) ==
    IF de.tag = "ReverseDirectedEdge"
    THEN ReverseDirectedEdge_is_outgoing(de) ELSE G_is_outgoing(de)

edge(de) ==
    IF de.tag = "ReverseDirectedEdge"
    THEN ReverseDirectedEdge_edge(de) ELSE G_edge(de)

\* ------------------------------------- the reference-style trait family

RECURSIVE Ref_num_nodes(_), Ref_num_edges(_), Ref_nodes_iter(_), Ref_edges_iter(_)
RECURSIVE Ref_enodes(_, _), Ref_src(_, _), Ref_snk(_, _), Ref_neigh_iter(_, _)
RECURSIVE Ref_node_id(_, _), Ref_id2node(_, _), Ref_edge_id(_, _), Ref_id2edge(_, _)
RECURSIVE Ref_out_iter(_, _), Ref_in_iter(_, _), Ref_incident_iter(_, _)

\* impl FiniteGraphRef for ReverseDigraph<G>
ReverseDigraph_Ref_num_nodes(v) == Ref_num_nodes(v.g0)

ReverseDigraph_Ref_num_edges(v) == Ref_num_edges(v.g0)

ReverseDigraph_Ref_nodes_iter(v) == ReverseWrapIt(Ref_nodes_iter(v.g0))

ReverseDigraph_Ref_edges_iter(v) == ReverseWrapIt(Ref_edges_iter(v.g0))

ReverseDigraph_Ref_enodes(v, e) == Ref_enodes(v.g0, e)

\* impl FiniteDigraphRef for ReverseDigraph<G>
ReverseDigraph_Ref_src(v, e) == Ref_snk(v.g0, e)

ReverseDigraph_Ref_snk(v, e) == Ref_src(v.g0, e)

\* impl UndirectedRef for ReverseDigraph<G>
ReverseDigraph_Ref_neigh_iter(v, u) == ReverseWrapIt(Ref_neigh_iter(v.g0, u))

\* impl DirectedRef for ReverseDigraph<G>
ReverseDigraph_Ref_out_iter(v, u) == ReverseWrapIt(Ref_in_iter(v.g0, u))

ReverseDigraph_Ref_in_iter(v, u) == ReverseWrapIt(Ref_out_iter(v.g0, u))

ReverseDigraph_Ref_incident_iter(v, u) ==
    ReverseIncidentIt(Ref_incident_iter(v.g0, u))

\* impl IndexGraphRef for ReverseDigraph<G>
ReverseDigraph_Ref_node_id(v, u) == Ref_node_id(v.g0, u)

ReverseDigraph_Ref_edge_id(v, e) == Ref_edge_id(v.g0, e)

ReverseDigraph_Ref_id2node(v, id) == Ref_id2node(v.g0, id)

ReverseDigraph_Ref_id2edge(v, id) == Ref_id2edge(v.g0, id)

Ref_num_nodes(v) ==
    IF IsView(v) THEN ReverseDigraph_Ref_num_nodes(v) ELSE G_num_nodes(v)

Ref_num_edges(v) ==
    IF IsView(v) THEN ReverseDigraph_Ref_num_edges(v) ELSE G_num_edges(v)

Ref_nodes_iter(v) ==
    IF IsView(v) THEN ReverseDigraph_Ref_nodes_iter(v) ELSE G_nodes_iter(v)

Ref_edges_iter(v) ==
    IF IsView(v) THEN ReverseDigraph_Ref_edges_iter(v) ELSE G_edges_iter(v)

Ref_enodes(v, e) ==
    IF IsView(v) THEN ReverseDigraph_Ref_enodes(v, e) ELSE G_enodes(v, e)

Ref_src(v, e) == IF IsView(v) THEN ReverseDigraph_Ref_src(v, e) ELSE G_src(v, e)

Ref_snk(v, e) == IF IsView(v) THEN ReverseDigraph_Ref_snk(v, e) ELSE G_snk(v, e)

Ref_neigh_iter(v, u) ==
    IF IsView(v) THEN ReverseDigraph_Ref_neigh_iter(v, u) ELSE G_neigh_iter(v, u)

Ref_out_iter(v, u) ==
    IF IsView(v) THEN ReverseDigraph_Ref_out_iter(v, u) ELSE G_out_iter(v, u)

Ref_in_iter(v, u) ==
    IF IsView(v) THEN ReverseDigraph_Ref_in_iter(v, u) ELSE G_in_iter(v, u)

Ref_incident_iter(v, u) ==
    IF IsView(v)
    THEN ReverseDigraph_Ref_incident_iter(v, u) ELSE G_incident_iter(v, u)

Ref_node_id(v, u) ==
    IF IsView(v) THEN ReverseDigraph_Ref_node_id(v, u) ELSE G_node_id(v, u)

Ref_edge_id(v, e) ==
    IF IsView(v) THEN ReverseDigraph_Ref_edge_id(v, e) ELSE G_edge_id(v, e)

Ref_id2node(v, id) ==
    IF IsView(v) THEN ReverseDigraph_Ref_id2node(v, id) ELSE G_id2node(v, id)

Ref_id2edge(v, id) ==
    IF IsView(v) THEN ReverseDigraph_Ref_id2edge(v, id) ELSE G_id2edge(v, id)

\* ------------------------------------------------------------ the caller

\* The view reached by d nested reverse() calls on the storage graph G.
RECURSIVE View(_, _)
View(G, d) == IF d = 0 THEN G ELSE reverse(View(G, d - 1))

Depths == 0..MaxDepth

Families == {"scoped", "ref"}

QueryOps ==
    {"num_nodes", "num_edges", "enodes", "src", "snk",
     "node_id", "edge_id", "id2node", "id2edge"}

GraphItOps == {"nodes_iter", "edges_iter"}

NodeItOps == {"out_iter", "in_iter", "incident_iter", "neigh_iter"}

\* The valid arguments of a query: precondition of every method.
QueryArgs(G, op) ==
    CASE op \in {"num_nodes", "num_edges"} -> {0}
      [] op \in {"enodes", "src", "snk", "edge_id"} -> EdgesOf(G)
      [] op = "node_id" -> NodesOf(G)
      [] op = "id2node" -> 0..(G.n - 1)
      [] op = "id2edge" -> 0..(G.m - 1)

CallQuery(fam, op, v, a) ==
    IF fam = "scoped"
    THEN CASE op = "num_nodes" -> num_nodes(v)
           [] op = "num_edges" -> num_edges(v)
           [] op = "enodes" -> enodes(v, a)
           [] op = "src" -> src(v, a)
           [] op = "snk" -> snk(v, a)
           [] op = "node_id" -> node_id(v, a)
           [] op = "edge_id" -> edge_id(v, a)
           [] op = "id2node" -> id2node(v, a)
           [] op = "id2edge" -> id2edge(v, a)
    ELSE CASE op = "num_nodes" -> Ref_num_nodes(v)
           [] op = "num_edges" -> Ref_num_edges(v)
           [] op = "enodes" -> Ref_enodes(v, a)
           [] op = "src" -> Ref_src(v, a)
           [] op = "snk" -> Ref_snk(v, a)
           [] op = "node_id" -> Ref_node_id(v, a)
           [] op = "edge_id" -> Ref_edge_id(v, a)
           [] op = "id2node" -> Ref_id2node(v, a)
           [] op = "id2edge" -> Ref_id2edge(v, a)

CallIter(fam, op, v, u) ==
    IF fam = "scoped"
    THEN CASE op = "nodes_iter" -> nodes_iter(v)
           [] op = "edges_iter" -> edges_iter(v)
           [] op = "out_iter" -> out_iter(v, u)
           [] op = "in_iter" -> in_iter(v, u)
           [] op = "incident_iter" -> incident_iter(v, u)
           [] op = "neigh_iter" -> neigh_iter(v, u)
    ELSE CASE op = "nodes_iter" -> Ref_nodes_iter(v)
           [] op = "edges_iter" -> Ref_edges_iter(v)
           [] op = "out_iter" -> Ref_out_iter(v, u)
           [] op = "in_iter" -> Ref_in_iter(v, u)
           [] op = "incident_iter" -> Ref_incident_iter(v, u)
           [] op = "neigh_iter" -> Ref_neigh_iter(v, u)

\* What the caller holds in a slot: nothing, the result of a query, a
\* traversal in progress (with what it has yielded so far), or the result
\* of count (which consumed the traversal object it).
Empty == [tag |-> "Empty"]

Value(fam, op, d, a, res) ==
    [tag |-> "Value", fam |-> fam, op |-> op, d |-> d, arg |-> a, res |-> res]

Iter(op, d, u, it) ==
    [tag |-> "Iter", op |-> op, d |-> d, u |-> u, it |-> it,
     yielded |-> <<>>, sawNone |-> FALSE]

Counted(s, n) ==
    [tag |-> "Count", op |-> s.op, d |-> s.d, u |-> s.u, it |-> s.it,
     yielded |-> s.yielded, n |-> n]

Slots == DOMAIN its

\* A query method is called on the view of depth d.
Query(i) ==
    /\ its[i].tag = "Empty"
    /\ \E fam \in Families, op \in QueryOps, d \in Depths :
         \E a \in QueryArgs(g, op) :
            its' = [its EXCEPT
                      ![i] = Value(fam, op, d, a, CallQuery(fam, op, View(g, d), a))]
    /\ UNCHANGED g

\* nodes_iter / edges_iter is called on the view of depth d.
NewGraphIter(i) ==
    /\ its[i].tag = "Empty"
    /\ \E fam \in Families, op \in GraphItOps, d \in Depths :
         its' = [its EXCEPT ![i] = Iter(op, d, 0, CallIter(fam, op, View(g, d), 0))]
    /\ UNCHANGED g

\* out_iter / in_iter / incident_iter / neigh_iter is called at node u.
NewNodeIter(i) ==
    /\ its[i].tag = "Empty"
    /\ \E fam \in Families, op \in NodeItOps, d \in Depths, u \in NodesOf(g) :
         its' = [its EXCEPT ![i] = Iter(op, d, u, CallIter(fam, op, View(g, d), u))]
    /\ UNCHANGED g

\* Slip: the cursor kept per view and node instead of per traversal object,
\* so a step moves every traversal started by the same call.
Step_SharedCursor(i) ==
    /\ its[i].tag = "Iter"
    /\ its' = [j \in DOMAIN its |->
                 IF its[j].tag = "Iter" /\ its[j].op = its[i].op
                    /\ its[j].d = its[i].d /\ its[j].u = its[i].u
                 THEN LET r == next(its[j].it, View(g, its[j].d))
                      IN  [its[j] EXCEPT
                             !.it = r.it,
                             !.yielded = IF j = i /\ r.res.some
                                         THEN Append(@, r.res.val) ELSE @,
                             !.sawNone = IF j = i THEN @ \/ ~r.res.some ELSE @]
                 ELSE its[j]]
    /\ UNCHANGED g

\* it.next(&view): the traversal object is the only thing written.
Step(i) ==
    /\ its[i].tag = "Iter"
    /\ LET r == next(its[i].it, View(g, its[i].d))
       IN  its' = [its EXCEPT
                     ![i].it = r.it,
                     ![i].yielded = IF r.res.some THEN Append(@, r.res.val) ELSE @,
                     ![i].sawNone = @ \/ ~r.res.some]
    /\ UNCHANGED g

\* it.count(&view) consumes the traversal object.
Count(i) ==
    /\ its[i].tag = "Iter"
    /\ its' = [its EXCEPT ![i] = Counted(@, count(@.it, View(g, @.d)))]
    /\ UNCHANGED g

\* The caller lets go of a result or abandons a traversal.
Drop(i) ==
    /\ its[i].tag # "Empty"
    /\ its' = [its EXCEPT ![i] = Empty]
    /\ UNCHANGED g

Init ==
    /\ g \in Graphs
    /\ its = [i \in {1} |-> Empty]

Next ==
    \/ \E i \in Slots : Query(i)
    \/ \E i \in Slots : NewGraphIter(i)
    \/ \E i \in Slots : NewNodeIter(i)
    \/ \E i \in Slots : Step(i)
    \/ \E i \in Slots : Count(i)
    \/ \E i \in Slots : Drop(i)

Spec == Init /\ [][Next]_vars

\* Two traversals at a time over one graph: edge k leaves the first node
\* and enters the nodes in turn (or the reverse), so the graph has a
\* self-loop whenever it has as many edges as nodes.
PairGraphs ==
    {[tag |-> "Graph", n |-> MaxNodes, m |-> MaxEdges,
      src |-> [e \in {EdgeH(k) : k \in 1..MaxEdges} |->
                 IF out THEN NodeH(1) ELSE NodeH(((e - 20) % MaxNodes) + 1)],
      snk |-> [e \in {EdgeH(k) : k \in 1..MaxEdges} |->
                 IF out THEN NodeH(((e - 20) % MaxNodes) + 1) ELSE NodeH(1)],
      flip |-> FALSE] : out \in BOOLEAN}

InitPair ==
    /\ g \in PairGraphs
    /\ its = [i \in {1, 2} |-> Empty]

NextPair ==
    \/ \E i \in Slots : NewGraphIter(i)
    \/ \E i \in Slots : NewNodeIter(i)
    \/ \E i \in Slots : Step(i)
    \/ \E i \in Slots : Count(i)
    \/ \E i \in Slots : Drop(i)

SpecPair == InitPair /\ [][NextPair]_vars

\* ------------------------------------------------------------ properties

\* Pulling a traversal object to exhaustion: the items of the Some results,
\* in order, up to the first None.
RECURSIVE Drain(_, _)
Drain(it, v) ==
    LET r == next(it, v)
    IN  IF r.res.some THEN <<r.res.val>> \o Drain(r.it, v) ELSE <<>>

IsPrefix(p, s) == Len(p) <= Len(s) /\ p = SubSeq(s, 1, Len(p))

\* A half-edge item with its orientation flags exchanged.
Inverted(x) == [e |-> edge(x[1]), out |-> is_incoming(x[1]),
                inc |-> is_outgoing(x[1]), v |-> x[2]]

Seen(x) == [e |-> edge(x[1]), out |-> is_outgoing(x[1]),
            inc |-> is_incoming(x[1]), v |-> x[2]]

SeenSeq(s) == [k \in 1..Len(s) |-> Seen(s[k])]

InvertedSeq(s) == [k \in 1..Len(s) |-> Inverted(s[k])]

Traversals == {i \in Slots : its[i].tag \in {"Iter", "Count"}}

Values == {i \in Slots : its[i].tag = "Value"}

\* The storage graph is a star: every edge leaves node c for another node.
IsStar(c) == g.m >= 1 /\ \A e \in EdgesOf(g) : g.src[e] = c /\ g.snk[e] # c

\* C1: with R = reverse(G), src(R, e) = snk(G, e) and snk(R, e) = src(G, e)
\* for every edge e, in both trait families: every src/snk result a caller
\* gets from a view is the opposite endpoint on the wrapped graph, and the
\* edges of a reversed star all enter the center (identifier 0).
C1_SrcSnkSwapped ==
    \A i \in Values :
        (its[i].op \in {"src", "snk"} /\ its[i].d >= 1) =>
           LET G == View(g, its[i].d - 1)
               R == reverse(G)
               e == its[i].arg
               fam == its[i].fam
           IN  /\ its[i].op = "src" =>
                     /\ its[i].res = CallQuery(fam, "snk", G, e)
                     /\ CallQuery(fam, "snk", R, e) = CallQuery(fam, "src", G, e)
               /\ its[i].op = "snk" =>
                     /\ its[i].res = CallQuery(fam, "src", G, e)
                     /\ CallQuery(fam, "src", R, e) = CallQuery(fam, "snk", G, e)
               /\ (its[i].d = 1 /\ IsStar(G_id2node(g, 0))) =>
                     IF its[i].op = "snk"
                     THEN CallQuery(fam, "node_id", R, its[i].res) = 0
                     ELSE CallQuery(fam, "node_id", R, its[i].res) > 0

\* A caller holds src(R, e) of the reference-style family for an edge with
\* two different endpoints: the wrapped graph's snk.
C1_Witness ==
    \E i \in Values :
        /\ its[i].op = "src" /\ its[i].fam = "ref" /\ its[i].d = 1
        /\ g.src[its[i].arg] # g.snk[its[i].arg]
        /\ its[i].res = g.snk[its[i].arg]

\* C2: with R = reverse(G), out_iter(R, u) pulled to exhaustion yields
\* exactly the (edge, neighbor) pairs of in_iter(G, u), and in_iter(R, u)
\* those of out_iter(G, u): same pairs, same number; at the center of a
\* star with m edges that is m out / 0 in on G and 0 out / m in on R.
C2_OutInSwapped ==
    \A i \in Traversals :
        (its[i].op \in {"out_iter", "in_iter"} /\ its[i].d >= 1) =>
           LET G == View(g, its[i].d - 1)
               R == reverse(G)
               u == its[i].u
               op == its[i].op
               dual == IF op = "out_iter" THEN "in_iter" ELSE "out_iter"
               want == Drain(CallIter("scoped", dual, G, u), G)
           IN  /\ Drain(CallIter("scoped", op, R, u), R) = want
               /\ Drain(CallIter("ref", op, R, u), R)
                     = Drain(CallIter("ref", dual, G, u), G)
               /\ count(CallIter("scoped", op, R, u), R) = Len(want)
               /\ IsPrefix(its[i].yielded, want)
               /\ (its[i].tag = "Iter" /\ its[i].sawNone) => its[i].yielded = want
               /\ (its[i].d = 1 /\ IsStar(u)) =>
                     /\ Len(Drain(out_iter(g, u), g)) = g.m
                     /\ Len(Drain(in_iter(g, u), g)) = 0
                     /\ Len(Drain(CallIter("scoped", op, R, u), R))
                           = IF op = "out_iter" THEN 0 ELSE g.m
                     /\ count(CallIter("scoped", op, R, u), R)
                           = IF op = "out_iter" THEN 0 ELSE g.m

\* in_iter(R, c) at the center c of a star with at least two edges was
\* pulled to its None and yielded every edge, though c has no incoming
\* edge in G.
C2_Witness ==
    \E i \in Traversals :
        /\ its[i].tag = "Iter" /\ its[i].op = "in_iter" /\ its[i].d = 1
        /\ its[i].sawNone
        /\ IsStar(its[i].u)
        /\ g.m >= 2
        /\ Len(its[i].yielded) = g.m

\* C3: with R = reverse(G), incident_iter(R, u) yields the occurrences of
\* incident_iter(G, u) (same underlying edge, same neighbor, same number),
\* each with is_outgoing and is_incoming exchanged.
C3_IncidentInverted ==
    \A i \in Traversals :
        (its[i].op = "incident_iter" /\ its[i].d >= 1) =>
           LET G == View(g, its[i].d - 1)
               R == reverse(G)
               u == its[i].u
               want == InvertedSeq(Drain(incident_iter(G, u), G))
           IN  /\ SeenSeq(Drain(incident_iter(R, u), R)) = want
               /\ SeenSeq(Drain(Ref_incident_iter(R, u), R))
                     = InvertedSeq(Drain(Ref_incident_iter(G, u), G))
               /\ IsPrefix(SeenSeq(its[i].yielded), want)
               /\ (its[i].tag = "Iter" /\ its[i].sawNone) =>
                     SeenSeq(its[i].yielded) = want

\* incident_iter(R, u) was pulled to its None and yielded an occurrence
\* that is outgoing on R and one that is incoming on R.
C3_Witness ==
    \E i \in Traversals :
        /\ its[i].tag = "Iter" /\ its[i].op = "incident_iter" /\ its[i].d = 1
        /\ its[i].sawNone
        /\ \E k \in 1..Len(its[i].yielded) : is_outgoing(its[i].yielded[k][1])
        /\ \E k \in 1..Len(its[i].yielded) : is_incoming(its[i].yielded[k][1])

\* The observable content of a drained sequence: half-edge items by their
\* edge(), flags and neighbor, every other item by its value.
ObsSeq(op, s) == IF op = "incident_iter" THEN SeenSeq(s) ELSE s

\* C4: every query on reverse(reverse(G)) returns what the same query
\* returns on G: the plain queries by value, the traversals by the
\* sequences they yield (half-edges by edge(), is_outgoing, is_incoming and
\* neighbor), their count and their size_hint.
C4_DoubleReverse ==
    /\ \A i \in Values :
          its[i].d >= 2 =>
             its[i].res =
                CallQuery(its[i].fam, its[i].op, View(g, its[i].d - 2), its[i].arg)
    /\ \A i \in Traversals :
          its[i].d >= 2 =>
             LET G == View(g, its[i].d - 2)
                 RR == reverse(reverse(G))
                 op == its[i].op
                 u == its[i].u
                 want == ObsSeq(op, Drain(CallIter("scoped", op, G, u), G))
                 itG == CallIter("scoped", op, G, u)
             IN  /\ CallIter("ref", op, G, u) = itG
                 /\ \A fam \in Families :
                       LET itRR == CallIter(fam, op, RR, u)
                       IN  /\ ObsSeq(op, Drain(itRR, RR)) = want
                           /\ count(itRR, RR) = count(itG, G)
                           /\ size_hint(itRR, RR) = size_hint(itG, G)
                 /\ IsPrefix(ObsSeq(op, its[i].yielded), want)
                 /\ (its[i].tag = "Iter" /\ its[i].sawNone) =>
                       ObsSeq(op, its[i].yielded) = want

\* incident_iter on reverse(reverse(g)) was pulled to its None and yielded
\* an outgoing and an incoming occurrence.
C4_Witness ==
    \E i \in Traversals :
        /\ its[i].tag = "Iter" /\ its[i].op = "incident_iter" /\ its[i].d = 2
        /\ its[i].sawNone
        /\ \E k \in 1..Len(its[i].yielded) : is_outgoing(its[i].yielded[k][1])
        /\ \E k \in 1..Len(its[i].yielded) : is_incoming(its[i].yielded[k][1])

\* C5 as stated: whenever the wrapped graph G satisfies
\* enodes(G, e) = (src(G, e), snk(G, e)), the view R = reverse(G) satisfies
\* enodes(R, e) = (src(R, e), snk(R, e)) as an ordered pair.
C5_EnodesOrderedOnView ==
    \A i \in Values :
        (its[i].op = "enodes" /\ its[i].d >= 1) =>
           LET G == View(g, its[i].d - 1)
               R == reverse(G)
               e == its[i].arg
               fam == its[i].fam
           IN  CallQuery(fam, "enodes", G, e)
                  = <<CallQuery(fam, "src", G, e), CallQuery(fam, "snk", G, e)>>
               => its[i].res
                     = <<CallQuery(fam, "src", R, e), CallQuery(fam, "snk", R, e)>>

\* C5 amended: enodes passes through the view unchanged, so when G satisfies
\* enodes(G, e) = (src(G, e), snk(G, e)), the view R = reverse(G) returns
\* enodes(R, e) = enodes(G, e) = (snk(R, e), src(R, e)): the endpoints of
\* (src(R, e), snk(R, e)) in the opposite order, equal to it as an ordered
\* pair exactly when e is a self-loop.
C5_EnodesPassThrough ==
    \A i \in Values :
        (its[i].op = "enodes" /\ its[i].d >= 1) =>
           LET G == View(g, its[i].d - 1)
               R == reverse(G)
               e == its[i].arg
               fam == its[i].fam
               srcR == CallQuery(fam, "src", R, e)
               snkR == CallQuery(fam, "snk", R, e)
           IN  CallQuery(fam, "enodes", G, e)
                  = <<CallQuery(fam, "src", G, e), CallQuery(fam, "snk", G, e)>>
               => /\ its[i].res = CallQuery(fam, "enodes", G, e)
                  /\ its[i].res = <<snkR, srcR>>
                  /\ (its[i].res = <<srcR, snkR>>) <=> (srcR = snkR)

\* A caller holds enodes(reverse(g), e) for an edge e with two different
\* endpoints: the storage graph's (src, snk).
C5_Witness ==
    \E i \in Values :
        /\ its[i].op = "enodes" /\ its[i].d = 1
        /\ g.src[its[i].arg] # g.snk[its[i].arg]
        /\ its[i].res = <<g.src[its[i].arg], g.snk[its[i].arg]>>

\* C6: node_id, edge_id, id2node and id2edge of R = reverse(G) return what
\* they return on G, and on R the identifiers are a bijection onto
\* [0, num_nodes(R)) and [0, num_edges(R)), in both trait families.
C6_IdentifiersPassThrough ==
    \A i \in Values :
        (its[i].op \in {"node_id", "edge_id", "id2node", "id2edge"}
           /\ its[i].d >= 1) =>
           LET G == View(g, its[i].d - 1)
               R == reverse(G)
               fam == its[i].fam
               a == its[i].arg
               res == its[i].res
           IN  /\ res = CallQuery(fam, its[i].op, G, a)
               /\ its[i].op = "node_id" =>
                     /\ res >= 0 /\ res < CallQuery(fam, "num_nodes", R, 0)
                     /\ CallQuery(fam, "id2node", R, res) = a
               /\ its[i].op = "edge_id" =>
                     /\ res >= 0 /\ res < CallQuery(fam, "num_edges", R, 0)
                     /\ CallQuery(fam, "id2edge", R, res) = a
               /\ its[i].op = "id2node" =>
                     /\ res \in NodesOf(g)
                     /\ CallQuery(fam, "node_id", R, res) = a
               /\ its[i].op = "id2edge" =>
                     /\ res \in EdgesOf(g)
                     /\ CallQuery(fam, "edge_id", R, res) = a

\* A caller holds node_id(reverse(g), u) on a graph whose identifiers are
\* not in handle order: the first of two nodes has identifier 1.
C6_Witness ==
    \E i \in Values :
        /\ its[i].op = "node_id" /\ its[i].d = 1
        /\ g.flip /\ g.n = 2
        /\ its[i].arg = NodeH(1)
        /\ its[i].res = 1

\* C7: num_nodes and num_edges of R = reverse(G) are those of G, and
\* nodes_iter(R), edges_iter(R) and neigh_iter(R, u) yield the sequences of
\* nodes_iter(G), edges_iter(G) and neigh_iter(G, u), in the same order.
C7_UndirectedPassThrough ==
    /\ \A i \in Values :
          (its[i].op \in {"num_nodes", "num_edges"} /\ its[i].d >= 1) =>
             /\ its[i].res =
                   CallQuery(its[i].fam, its[i].op, View(g, its[i].d - 1), its[i].arg)
             /\ its[i].res = IF its[i].op = "num_nodes" THEN g.n ELSE g.m
    /\ \A i \in Traversals :
          (its[i].op \in {"nodes_iter", "edges_iter", "neigh_iter"}
             /\ its[i].d >= 1) =>
             LET G == View(g, its[i].d - 1)
                 R == reverse(G)
                 op == its[i].op
                 u == its[i].u
                 want == Drain(CallIter("scoped", op, G, u), G)
             IN  /\ CallIter("ref", op, G, u) = CallIter("scoped", op, G, u)
                 /\ \A fam \in Families :
                       Drain(CallIter(fam, op, R, u), R) = want
                 /\ IsPrefix(its[i].yielded, want)
                 /\ (its[i].tag = "Iter" /\ its[i].sawNone) => its[i].yielded = want

\* neigh_iter(reverse(g), u) was pulled to its None at a node with an
\* incoming edge from another node and yielded it.
C7_Witness ==
    \E i \in Traversals :
        /\ its[i].tag = "Iter" /\ its[i].op = "neigh_iter" /\ its[i].d = 1
        /\ its[i].sawNone
        /\ Len(its[i].yielded) >= 2
        /\ \E k \in 1..Len(its[i].yielded) :
              LET e == its[i].yielded[k][1]
              IN  g.snk[e] = its[i].u /\ g.src[e] # its[i].u
                  /\ its[i].yielded[k][2] = g.src[e]

\* The elements of the storage graph a traversal started by op at depth d
\* has to walk: a view at odd depth walks the opposite direction.
Elements(op, d, u) ==
    CASE op = "nodes_iter" -> G_nodes_seq(g)
      [] op = "edges_iter" -> G_edges_seq(g)
      [] op = "out_iter" -> IF d % 2 = 0 THEN G_out_seq(g, u) ELSE G_in_seq(g, u)
      [] op = "in_iter" -> IF d % 2 = 0 THEN G_in_seq(g, u) ELSE G_out_seq(g, u)
      [] op = "incident_iter" -> G_incident_seq(g, u)
      [] op = "neigh_iter" -> G_neigh_seq(g, u)

\* C8: for every traversal object obtained from a view, after any number of
\* next calls: next returns Some exactly while elements remain and None on
\* every call after a None; count returns the number of Some results
\* further next calls would produce; size_hint returns (lo, hi) with
\* lo <= that number and, when hi is present, that number <= hi.
C8_PullProtocol ==
    \A i \in Traversals :
        its[i].d >= 1 =>
           LET V == View(g, its[i].d)
               it == its[i].it
               rem == Len(Elements(its[i].op, its[i].d, its[i].u))
                         - Len(its[i].yielded)
               hint == size_hint(it, V)
           IN  /\ rem >= 0
               /\ Len(Drain(it, V)) = rem
               /\ count(it, V) = rem
               /\ hint[1] <= rem
               /\ hint[2].some => rem <= hint[2].val
               /\ its[i].tag = "Iter" =>
                     /\ next(it, V).res.some <=> rem > 0
                     /\ its[i].sawNone => ~next(it, V).res.some
               /\ its[i].tag = "Count" => its[i].n = rem

\* count was called on a traversal of a view after at least one next, with
\* elements still remaining.
C8_Witness ==
    \E i \in Traversals :
        /\ its[i].tag = "Count" /\ its[i].d = 1
        /\ its[i].op = "in_iter"
        /\ Len(its[i].yielded) >= 1
        /\ its[i].n >= 1

\* C9: every half-edge incident_iter yields on a view, at every nesting
\* depth, has exactly one of is_outgoing and is_incoming true.
C9_ExactlyOneFlag ==
    \A i \in Traversals :
        (its[i].op = "incident_iter" /\ its[i].d >= 1) =>
           LET rest == Drain(its[i].it, View(g, its[i].d))
           IN  /\ \A k \in 1..Len(its[i].yielded) :
                     is_outgoing(its[i].yielded[k][1])
                        # is_incoming(its[i].yielded[k][1])
               /\ \A k \in 1..Len(rest) :
                     is_outgoing(rest[k][1]) # is_incoming(rest[k][1])

\* incident_iter on reverse(reverse(g)) has yielded at least two half-edges.
C9_Witness ==
    \E i \in Traversals :
        /\ its[i].op = "incident_iter" /\ its[i].d = 2
        /\ Len(its[i].yielded) >= 2

\* Every traversal in progress has yielded a prefix of what a fresh
\* traversal by the same call yields when run alone, and will yield the
\* rest.
RunsAsAlone ==
    \A i \in Traversals :
        LET V == View(g, its[i].d)
            alone == Drain(CallIter("scoped", its[i].op, V, its[i].u), V)
        IN  /\ its[i].tag = "Iter" =>
                  its[i].yielded \o Drain(its[i].it, V) = alone
            /\ its[i].tag = "Count" =>
                  /\ IsPrefix(its[i].yielded, alone)
                  /\ its[i].n = Len(alone) - Len(its[i].yielded)

\* A step writes at most one slot and never the graph.
OneSlotWritten ==
    /\ g' = g
    /\ \A i \in Slots : \A j \in Slots :
          (i # j /\ its'[i] # its[i]) => its'[j] = its[j]

\* C10: traversals over the view and over the graph are independent and
\* read-only: in any interleaving each yields the sequence it yields when
\* run alone, a step on one leaves every other unchanged, and no operation
\* changes the graph.
C10_IndependentReadOnly == []RunsAsAlone /\ [][OneSlotWritten]_vars

\* Two traversals started by the same call on reverse(g), the second one
\* while the first was under way, are both part-way through, at different
\* positions.
C10_Witness ==
    /\ its[1].tag = "Iter" /\ its[2].tag = "Iter"
    /\ its[1].op = "neigh_iter" /\ its[2].op = "neigh_iter"
    /\ its[1].u = its[2].u
    /\ its[1].d = 1 /\ its[2].d = 1
    /\ Len(its[1].yielded) = 2 /\ Len(its[2].yielded) = 1
    /\ ~its[1].sawNone /\ ~its[2].sawNone
    /\ Len(Drain(its[1].it, View(g, 1))) >= 1

====
